---- MODULE Spec2Model ----
(***************************************************************************)
(* Model of the routing core of josephjquinn/orthanc:                      *)
(*   src/app/server/routing.py  (haversine_km, _route_order_greedy,        *)
(*                               _route_order_tsp, route_order, ...)       *)
(*   src/app/server/main.py     (compute_route, the /route handler)        *)
(*                                                                         *)
(* Numbers.  The code computes in IEEE doubles; the model computes in      *)
(* fixed point:                                                            *)
(*   - a coordinate is a pair of integers counting steps of 0.01 degree;   *)
(*   - a distance is an integer number of 10^-6 km, haversine_km being the *)
(*     code's value at those coordinates rounded to that unit (the sites   *)
(*     are chosen so that two distances are equal in the model exactly     *)
(*     when the doubles are equal);                                        *)
(*   - damage_weight is the integer numerator of a fraction over WeightDen *)
(*     (so WeightDen itself is the weight 1.0);                            *)
(*   - a greedy score is kept as its numerator over the positive common    *)
(*     denominator WeightDen * 100 * d_max of one greedy step.             *)
(* A visiting order is a sequence (positions 1..) of node indices 0..n-1,  *)
(* so the code's order[0] is order[1] here.                                *)
(***************************************************************************)
EXTENDS Integers, Sequences, FiniteSets, TLC

\* Largest number of sites in a request.
MaxSites == 3

\* Resolution of damage_weight: weights are k / WeightDen.
WeightDen == 2

\* The hub of every request.
HubPoint == <<0, 0>>

\* damage_weight arguments: below 0, 0, inside (0, 1), 1 and above 1.
Weights == (-1) .. (WeightDen + 1)

\* algorithm arguments; "fastest" stands for any unrecognized name.
Algorithms == { "greedy", "tsp", "fastest" }

\* The sites (lat, lng, damage_score) a request can name, coordinates in steps of
\* 0.01 degree: one at the hub, two at one place with different damage, two at
\* the same distance from the hub with the same damage, a far one badly damaged.
SiteChoices ==
    { <<0, 0, 50>>, <<0, 1, 10>>, <<0, 1, 90>>, <<0, 2, 90>>, <<1, 0, 50>>, <<1, 0, 10>> }

RECURSIVE SeqsUpTo(_, _)
SeqsUpTo(S, k) ==
    IF k = 0 THEN { <<>> }
    ELSE LET shorter == SeqsUpTo(S, k - 1)
         IN  shorter \cup { Append(s, x) : s \in { t \in shorter : Len(t) = k - 1 }, x \in S }

Abs(x) == IF x < 0 THEN -x ELSE x

MinOf(S) == CHOOSE x \in S : \A y \in S : x <= y

MaxOf(S) == CHOOSE x \in S : \A y \in S : x >= y

\* Python's round(): to the nearest integer, halves to the even one (num >= 0, den > 0).
RoundHalfEven(num, den) ==
    LET q == num \div den
        r == num % den
    IN  IF 2 * r < den THEN q
        ELSE IF 2 * r > den THEN q + 1
        ELSE IF q % 2 = 0 THEN q ELSE q + 1

\* round(x, 4) of a value in km: the nearest multiple of 100 units of 10^-6 km.
Round4(x) == RoundHalfEven(x, 100) * 100

\* Great-circle distance, in 10^-6 km, between two grid points (R = 6371.0).
haversine_km(lat1, lng1, lat2, lng2) ==
    LET dlat == Abs(lat2 - lat1)
        dlng == Abs(lng2 - lng1)
    IN  CASE dlat = 0 /\ dlng = 0 ->  0
          [] dlat = 0 /\ dlng = 1  -> 1111949
          [] dlat = 0 /\ dlng = 2  -> 2223899
          [] dlat = 1 /\ dlng = 0  -> 1111949
          [] dlat = 1 /\ dlng = 1  -> 1572534
          [] dlat = 1 /\ dlng = 2  -> 2486394

\* haversine_km between nodes a and b of a coordinate table.
EdgeKm(coords, a, b) ==
    haversine_km(coords[a][1], coords[a][2], coords[b][1], coords[b][2])

RECURSIVE SumLegs(_, _, _)
SumLegs(order, coords, i) ==
    IF i >= Len(order) THEN 0
    ELSE EdgeKm(coords, order[i], order[i + 1]) + SumLegs(order, coords, i + 1)

\* Variant: the reduction stops one leg early (range(len(order) - 2)).
total_distance_short_by_a_leg(order, coords) ==
    IF Len(order) <= 1 THEN 0 ELSE SumLegs(SubSeq(order, 1, Len(order) - 1), coords, 1)

total_distance_km_along_order(order, coords) ==
    IF Len(order) <= 1 THEN 0 ELSE SumLegs(order, coords, 1)

total_distance_km(order, coords) == total_distance_km_along_order(order, coords)


\* ---------------------------------------------------------------------
\* _route_order_greedy: one pass of the while loop.

\* best_j = None: no site chosen yet (best_score is float("-inf")).
None == -1

greedy_dists(coords, current, unvisited) ==
    [j \in unvisited |-> EdgeKm(coords, current, j)]

\* d_max = max(d for _, d in dists) or 1.0   (1.0 km is 1000000 units)
greedy_d_max(dists) ==
    LET m == MaxOf({ dists[j] : j \in DOMAIN dists })
    IN  IF m = 0 THEN 1000000 ELSE m

\* Variant: the distance term is not weighted (damage_weight * damage_norm - dist_norm).
greedy_score_unweighted_distance(damage_weight, damage, d, d_max) ==
    damage_weight * damage * d_max - WeightDen * 100 * d

\* Variant: the weights are swapped
\* ((1.0 - damage_weight) * damage_norm - damage_weight * dist_norm).
greedy_score_swapped_weights(damage_weight, damage, d, d_max) ==
    (WeightDen - damage_weight) * damage * d_max - damage_weight * 100 * d

\* score = damage_weight * damage_norm - (1.0 - damage_weight) * dist_norm,
\* as its numerator over WeightDen * 100 * d_max.
greedy_score(damage_weight, damage, d, d_max) ==
    damage_weight * damage * d_max - (WeightDen - damage_weight) * 100 * d

greedy_scores(damage_scores, damage_weight, dists) ==
    [j \in DOMAIN dists |->
        greedy_score(damage_weight, damage_scores[j], dists[j], greedy_d_max(dists))]

\* Variant: if score >= best_score (the last of several equal scores wins).
score_beats_or_ties(score, best_j, best_score) ==
    best_j = None \/ score >= best_score

\* if score > best_score
score_beats(score, best_j, best_score) ==
    best_j = None \/ score > best_score

\* for j, d in dists: ...   (a set of small ints iterates in ascending order)
RECURSIVE greedy_scan(_, _, _, _)
greedy_scan(todo, scores, best_j, best_score) ==
    IF todo = {} THEN best_j
    ELSE LET j == MinOf(todo)
         IN  IF score_beats(scores[j], best_j, best_score)
             THEN greedy_scan(todo \ {j}, scores, j, scores[j])
             ELSE greedy_scan(todo \ {j}, scores, best_j, best_score)

greedy_best_j(coords, damage_scores, damage_weight, unvisited, current) ==
    LET dists == greedy_dists(coords, current, unvisited)
    IN  greedy_scan(unvisited, greedy_scores(damage_scores, damage_weight, dists), None, 0)

\* Variant: set(range(2, n)), the first site never enters the frontier.
initial_unvisited_from_2(n) == 2 .. (n - 1)

\* unvisited = set(range(1, n))
initial_unvisited(n) == 1 .. (n - 1)

\* ---------------------------------------------------------------------
\* _route_order_tsp: the cost matrix and the solver's interface.

\* SCALE = 1000
SCALE == 1000

\* int(round(cost_km * SCALE)) for the arc i -> j, where
\* cost_km = d_km * (1.0 - damage_weight * damage / 100.0); a km is 1000000 units,
\* so cost_km * SCALE is units * (100 * WeightDen - w * damage) over
\* 100 * WeightDen * (1000000 / SCALE).
cost_entry(coords, damage_scores, damage_weight, i, j) ==
    IF i = j THEN 0
    ELSE IF j = 0 THEN 0
    ELSE RoundHalfEven(
            EdgeKm(coords, i, j) * (100 * WeightDen - damage_weight * damage_scores[j]),
            100 * WeightDen * (1000000 \div SCALE))

build_cost_matrix(coords, damage_scores, damage_weight) ==
    LET n == Cardinality(DOMAIN coords)
    IN  [i \in 0 .. (n - 1) |->
            [j \in 0 .. (n - 1) |-> cost_entry(coords, damage_scores, damage_weight, i, j)]]

\* RoutingIndexManager(n, 1, 0): one vehicle, depot node 0.  Indices 0..n-1 are
\* the nodes (0 is the vehicle's start) and index n is the vehicle's end.
RoutingStart == 0

IsEnd(n, index) == index = n

IndexToNode(n, index) == IF index = n THEN 0 ELSE index

\* What SolveWithParameters can hand back for n nodes: the NextVar values of a
\* route from the start through every node once to the end.
Assignments(n) ==
    LET perms == { p \in [1 .. (n - 1) -> 1 .. (n - 1)] :
                     \A a, b \in 1 .. (n - 1) : p[a] = p[b] => a = b }
    IN  { [i \in 0 .. (n - 1) |->
             IF i = 0 THEN p[1]
             ELSE LET k == CHOOSE k \in 1 .. (n - 1) : p[k] = i
                  IN  IF k = n - 1 THEN n ELSE p[k + 1]] : p \in perms }

\* while not routing.IsEnd(index): order.append(node); index = next
RECURSIVE extract_order(_, _, _, _)

\* Variant: the loop advances before it appends, so the start node is skipped and
\* the end node (the hub again) is appended.
RECURSIVE extract_order_advance_first(_, _, _, _)
extract_order_advance_first(n, a, index, order) ==
    IF IsEnd(n, index) THEN order
    ELSE extract_order_advance_first(n, a, a[index],
                                     Append(order, IndexToNode(n, a[index])))

extract_order(n, a, index, order) ==
    IF IsEnd(n, index) THEN order
    ELSE extract_order(n, a, a[index], Append(order, IndexToNode(n, index)))

\* if order and order[-1] == 0 and len(order) > 1: order.pop()
drop_closing_hub(order) ==
    IF Len(order) > 0 /\ order[Len(order)] = 0 /\ Len(order) > 1
    THEN SubSeq(order, 1, Len(order) - 1)
    ELSE order

\* ---------------------------------------------------------------------
\* route_order

\* Variant: only the upper bound is applied (min(1.0, damage_weight)).
clamp_weight_upper_only(w) == IF w < WeightDen THEN w ELSE WeightDen

\* damage_weight = max(0.0, min(1.0, damage_weight))
clamp_weight(w) ==
    LET m == IF w < WeightDen THEN w ELSE WeightDen
    IN  IF m > 0 THEN m ELSE 0

build_coords(hub, sites) ==
    [i \in 0 .. Len(sites) |-> IF i = 0 THEN hub ELSE <<sites[i][1], sites[i][2]>>]

build_damage_scores(sites) ==
    [i \in 0 .. Len(sites) |-> IF i = 0 THEN 0 ELSE sites[i][3]]

\* ---------------------------------------------------------------------
\* The value of a whole call, for comparing one call with another.

RECURSIVE greedy_run(_, _, _, _, _, _, _)
greedy_run(coords, damage_scores, damage_weight, unvisited, path, total, current) ==
    IF unvisited = {} THEN [order |-> path, cost |-> total]
    ELSE LET j == greedy_best_j(coords, damage_scores, damage_weight, unvisited, current)
         IN  IF j = None THEN [order |-> path, cost |-> total]
             ELSE greedy_run(coords, damage_scores, damage_weight, unvisited \ {j},
                             Append(path, j), total + EdgeKm(coords, current, j), j)

\* _route_order_greedy(coords, damage_scores, damage_weight)
route_order_greedy(coords, damage_scores, damage_weight) ==
    LET n == Cardinality(DOMAIN coords)
    IN  IF n <= 1 THEN [order |-> <<0>>, cost |-> 0]
        ELSE greedy_run(coords, damage_scores, damage_weight,
                        initial_unvisited(n), <<0>>, 0, 0)

\* _route_order_tsp(coords, damage_scores, damage_weight) when the solver library
\* does `how` ("ImportError", "no_assignment", or "assignment" with NextVar values a).
route_order_tsp(coords, damage_scores, damage_weight, how, a) ==
    LET n == Cardinality(DOMAIN coords)
    IN  IF how = "ImportError" THEN route_order_greedy(coords, damage_scores, damage_weight)
        ELSE IF n <= 1 THEN [order |-> <<0>>, cost |-> 0]
        ELSE IF how = "no_assignment"
             THEN route_order_greedy(coords, damage_scores, damage_weight)
        ELSE LET order == drop_closing_hub(extract_order(n, a, RoutingStart, << >>))
             IN  [order |-> order, cost |-> total_distance_km_along_order(order, coords)]

\* route_order(hub, sites, damage_weight, algorithm) when the solver does `how`.
route_order(hub, sites, w, alg, how, a) ==
    IF sites = << >> THEN [order |-> <<0>>, cost |-> 0]
    ELSE IF alg = "tsp"
         THEN route_order_tsp(build_coords(hub, sites), build_damage_scores(sites),
                              clamp_weight(w), how, a)
         ELSE route_order_greedy(build_coords(hub, sites), build_damage_scores(sites),
                                 clamp_weight(w))

\* ---------------------------------------------------------------------
\* State.

VARIABLES
    req,            \* the call's arguments: hub, sites, damage_weight, algorithm
    caller,         \* "none", "direct" (route_order called directly), "http" (/route)
    pc,             \* where the call is
    algorithm,      \* route_order's algorithm parameter
    damage_weight,  \* route_order's damage_weight after the clamp
    coords,         \* [hub] + site coordinates
    damage_scores,  \* [0.0] + site damages
    unvisited,      \* greedy: the frontier
    path,           \* greedy: the path so far
    total_km,       \* greedy: total_distance_km
    current,        \* greedy: current node
    solver,         \* tsp: what the solver library did
    cost_matrix,    \* tsp: the matrix handed to the solver
    assignment,     \* tsp: NextVar values of the solution
    result,         \* route_order's return value
    response        \* compute_route's RouteResponse

vars == << req, caller, pc, algorithm, damage_weight, coords, damage_scores,
           unvisited, path, total_km, current, solver, cost_matrix, assignment,
           result, response >>

greedy_vars == << unvisited, path, total_km, current >>

tsp_vars == << solver, cost_matrix, assignment >>

NoResult == [order |-> <<>>, cost |-> -1]

NoResponse == [order |-> <<>>, total_distance_km |-> -1, total_cost_km |-> -1,
               damage_weight |-> 0, algorithm |-> ""]

Init ==
    /\ req \in [hub : {HubPoint}, sites : SeqsUpTo(SiteChoices, MaxSites),
                damage_weight : Weights, algorithm : Algorithms]
    /\ caller = "none"
    /\ pc = "idle"
    /\ algorithm = ""
    /\ damage_weight = 0
    /\ coords = << >>
    /\ damage_scores = << >>
    /\ unvisited = {}
    /\ path = << >>
    /\ total_km = 0
    /\ current = 0
    /\ solver = "unused"
    /\ cost_matrix = << >>
    /\ assignment = << >>
    /\ result = NoResult
    /\ response = NoResponse

\* A direct call route_order(hub, sites, damage_weight, algorithm).
CallRouteOrder ==
    /\ pc = "idle"
    /\ caller' = "direct"
    /\ algorithm' = req.algorithm
    /\ pc' = "route_order"
    /\ UNCHANGED << req, damage_weight, coords, damage_scores, greedy_vars, tsp_vars,
                    result, response >>

\* POST /route, up to the call of route_order.
ComputeRoute ==
    /\ pc = "idle"
    /\ caller' = "http"
    /\ IF req.sites = << >>
       THEN /\ response' = [order |-> <<0>>, total_distance_km |-> 0, total_cost_km |-> 0,
                            damage_weight |-> req.damage_weight,
                            algorithm |-> req.algorithm]
            /\ pc' = "responded"
            /\ UNCHANGED algorithm
       ELSE /\ algorithm' = IF req.algorithm \in {"greedy", "tsp"}
                            THEN req.algorithm ELSE "greedy"
            /\ pc' = "route_order"
            /\ UNCHANGED response
    /\ UNCHANGED << req, damage_weight, coords, damage_scores, greedy_vars, tsp_vars, result >>

\* route_order: the clamp, the empty case, the tables and the dispatch.
RouteOrder ==
    /\ pc = "route_order"
    /\ damage_weight' = clamp_weight(req.damage_weight)
    /\ IF req.sites = << >>
       THEN /\ result' = [order |-> <<0>>, cost |-> 0]
            /\ pc' = "returned"
            /\ UNCHANGED << coords, damage_scores >>
       ELSE /\ coords' = build_coords(req.hub, req.sites)
            /\ damage_scores' = build_damage_scores(req.sites)
            /\ pc' = IF algorithm = "tsp" THEN "tsp" ELSE "greedy"
            /\ UNCHANGED result
    /\ UNCHANGED << req, caller, algorithm, greedy_vars, tsp_vars, response >>

\* _route_order_greedy, lines 19-25.
GreedyEnter ==
    /\ pc = "greedy"
    /\ LET n == Cardinality(DOMAIN coords)
       IN  IF n <= 1
           THEN /\ result' = [order |-> <<0>>, cost |-> 0]
                /\ pc' = "returned"
                /\ UNCHANGED greedy_vars
           ELSE /\ unvisited' = initial_unvisited(n)
                /\ path' = <<0>>
                /\ total_km' = 0
                /\ current' = 0
                /\ pc' = "greedy_loop"
                /\ UNCHANGED result
    /\ UNCHANGED << req, caller, algorithm, damage_weight, coords, damage_scores,
                    tsp_vars, response >>

\* Variant of GreedyStep: the accumulator takes the damage-discounted leg
\* d_km * (1.0 - damage_weight * damage / 100.0) in place of d_km.
GreedyStepDiscounted ==
    /\ pc = "greedy_loop"
    /\ unvisited # {}
    /\ LET j == greedy_best_j(coords, damage_scores, damage_weight, unvisited, current)
       IN  IF j = None
           THEN /\ result' = [order |-> path, cost |-> total_km]
                /\ pc' = "returned"
                /\ UNCHANGED greedy_vars
           ELSE /\ unvisited' = unvisited \ {j}
                /\ total_km' = total_km
                       + RoundHalfEven(EdgeKm(coords, current, j)
                                         * (100 * WeightDen - damage_weight * damage_scores[j]),
                                       100 * WeightDen)
                /\ path' = Append(path, j)
                /\ current' = j
                /\ UNCHANGED << pc, result >>
    /\ UNCHANGED << req, caller, algorithm, damage_weight, coords, damage_scores,
                    tsp_vars, response >>

\* One iteration of the while loop, lines 27-51.
GreedyStep ==
    /\ pc = "greedy_loop"
    /\ unvisited # {}
    /\ LET j == greedy_best_j(coords, damage_scores, damage_weight, unvisited, current)
       IN  IF j = None
           THEN /\ result' = [order |-> path, cost |-> total_km]
                /\ pc' = "returned"
                /\ UNCHANGED greedy_vars
           ELSE /\ unvisited' = unvisited \ {j}
                /\ total_km' = total_km + EdgeKm(coords, current, j)
                /\ path' = Append(path, j)
                /\ current' = j
                /\ UNCHANGED << pc, result >>
    /\ UNCHANGED << req, caller, algorithm, damage_weight, coords, damage_scores,
                    tsp_vars, response >>

\* The loop ends: return (path, total_distance_km).
GreedyReturn ==
    /\ pc = "greedy_loop"
    /\ unvisited = {}
    /\ result' = [order |-> path, cost |-> total_km]
    /\ pc' = "returned"
    /\ UNCHANGED << req, caller, algorithm, damage_weight, coords, damage_scores,
                    greedy_vars, tsp_vars, response >>

\* Variant of TspImport: on ImportError the greedy constructor is called with the
\* default weight 1.0 in place of the caller's.
TspImportFallbackDefaultWeight ==
    /\ pc = "tsp"
    /\ \E outcome \in {"ImportError", "error", "loaded"} :
         /\ solver' = outcome
         /\ CASE outcome = "ImportError" ->
                   /\ pc' = "greedy"
                   /\ damage_weight' = WeightDen
                   /\ UNCHANGED << cost_matrix, result >>
              [] outcome = "error" ->
                   /\ pc' = "raised"
                   /\ UNCHANGED << damage_weight, cost_matrix, result >>
              [] outcome = "loaded" ->
                   /\ cost_matrix' = build_cost_matrix(coords, damage_scores, damage_weight)
                   /\ pc' = "solve"
                   /\ UNCHANGED << damage_weight, result >>
    /\ UNCHANGED << req, caller, algorithm, coords, damage_scores,
                    greedy_vars, assignment, response >>

\* _route_order_tsp, lines 61-84: the import, the trivial case, the cost matrix.
TspImport ==
    /\ pc = "tsp"
    /\ \E outcome \in {"ImportError", "error", "loaded"} :
         /\ solver' = outcome
         /\ CASE outcome = "ImportError" ->
                   /\ pc' = "greedy"
                   /\ UNCHANGED << cost_matrix, result >>
              [] outcome = "error" ->
                   /\ pc' = "raised"
                   /\ UNCHANGED << cost_matrix, result >>
              [] outcome = "loaded" ->
                   IF Cardinality(DOMAIN coords) <= 1
                   THEN /\ result' = [order |-> <<0>>, cost |-> 0]
                        /\ pc' = "returned"
                        /\ UNCHANGED cost_matrix
                   ELSE /\ cost_matrix' = build_cost_matrix(coords, damage_scores, damage_weight)
                        /\ pc' = "solve"
                        /\ UNCHANGED result
    /\ UNCHANGED << req, caller, algorithm, damage_weight, coords, damage_scores,
                    greedy_vars, assignment, response >>

\* Lines 86-121: the solver runs; without an assignment the greedy constructor
\* takes over, with one the order is read off it and its distance recomputed.
TspSolve ==
    /\ pc = "solve"
    /\ \/ /\ solver' = "error"
          /\ pc' = "raised"
          /\ UNCHANGED << assignment, result >>
       \/ /\ solver' = "no_assignment"
          /\ pc' = "greedy"
          /\ UNCHANGED << assignment, result >>
       \/ \E a \in Assignments(Cardinality(DOMAIN coords)) :
            /\ solver' = "assignment"
            /\ assignment' = a
            /\ LET n == Cardinality(DOMAIN coords)
                   order == drop_closing_hub(extract_order(n, a, RoutingStart, << >>))
               IN  result' = [order |-> order,
                              cost |-> total_distance_km_along_order(order, coords)]
            /\ pc' = "returned"
    /\ UNCHANGED << req, caller, algorithm, damage_weight, coords, damage_scores,
                    greedy_vars, cost_matrix, response >>

\* POST /route, after route_order returned.
Respond ==
    /\ pc = "returned"
    /\ caller = "http"
    /\ response' = [order |-> result.order,
                    total_distance_km |->
                        Round4(total_distance_km(result.order,
                                                 build_coords(req.hub, req.sites))),
                    total_cost_km |-> Round4(result.cost),
                    damage_weight |-> req.damage_weight,
                    algorithm |-> algorithm]
    /\ pc' = "responded"
    /\ UNCHANGED << req, caller, algorithm, damage_weight, coords, damage_scores,
                    greedy_vars, tsp_vars, result >>

Next ==
    \/ CallRouteOrder
    \/ ComputeRoute
    \/ RouteOrder
    \/ GreedyEnter
    \/ GreedyStep
    \/ GreedyReturn
    \/ TspImport
    \/ TspSolve
    \/ Respond

Spec == Init /\ [][Next]_vars

\* ---------------------------------------------------------------------
\* Properties.

ReqCoords == build_coords(req.hub, req.sites)

ReqDamage == build_damage_scores(req.sites)

NumSites == Len(req.sites)

Elems(seq) == { seq[i] : i \in 1 .. Len(seq) }

\* min(1, max(0, w)) of the call's damage_weight argument.
ClampedArg ==
    LET lo == IF req.damage_weight > 0 THEN req.damage_weight ELSE 0
    IN  IF lo < WeightDen THEN lo ELSE WeightDen

\* C1: the order route_order returns for algorithm "greedy" has n + 1 elements,
\* starts with the hub and holds every index 0..n exactly once.
GreedyOrderIsPermutation ==
    (pc = "returned" /\ algorithm = "greedy") =>
        /\ Len(result.order) = NumSites + 1
        /\ result.order[1] = 0
        /\ Elems(result.order) = 0 .. NumSites

GreedyOrderWitness ==
    /\ pc = "returned"
    /\ algorithm = "greedy"
    /\ NumSites = 3
    /\ result.order # <<0, 1, 2, 3>>

\* C2: with algorithm "tsp", when the solver library cannot be imported or the
\* solver finds no assignment, route_order returns the very pair that the call
\* with algorithm "greedy" returns for the same hub, sites and damage_weight.
TspFallbackEqualsGreedy ==
    (pc = "returned" /\ algorithm = "tsp" /\ solver \in {"ImportError", "no_assignment"}) =>
        result = route_order(req.hub, req.sites, req.damage_weight, "greedy",
                             "unused", << >>)

TspFallbackWitness ==
    /\ pc = "returned"
    /\ algorithm = "tsp"
    /\ solver = "ImportError"
    /\ NumSites = 3
    /\ req.damage_weight = 1
    /\ result.order # <<0, 1, 2, 3>>

\* C3 (as claimed): whatever the solver library does, route_order returns; no
\* failure of the library reaches the caller.
NoSolverFailureSurfaces == pc # "raised"

\* C4: the second value route_order returns is the raw distance along the order
\* it returns: total_distance_km_along_order(order, coords).
CostIsRawDistance ==
    pc = "returned" =>
        result.cost = total_distance_km_along_order(result.order, ReqCoords)

CostIsRawDistanceWitness ==
    /\ pc = "returned"
    /\ NumSites = 3
    /\ damage_weight > 0
    /\ result.cost > 3000000

\* The damage-adjusted cost of an order, each leg i -> j counted as
\* distance(i, j) * (1 - damage_weight * damage_score[j] / 100), every leg taken
\* to the nearest unit.
RECURSIVE AdjustedLegs(_, _)
AdjustedLegs(o, i) ==
    IF i >= Len(o) THEN 0
    ELSE RoundHalfEven(EdgeKm(ReqCoords, o[i], o[i + 1])
                         * (100 * WeightDen - damage_weight * ReqDamage[o[i + 1]]),
                       100 * WeightDen)
         + AdjustedLegs(o, i + 1)

\* ... rounded to 4 decimals of a km.
AdjustedCostRounded(o) == Round4(AdjustedLegs(o, 1))

GreedyFirstPickMaxDamage ==
    (damage_weight = WeightDen /\ Len(path) >= 2) =>
        \A j \in 1 .. NumSites : damage_scores[j] <= damage_scores[path[2]]

\* Hub (0,0), sites (0,1), (0,2), (1,0) with damage 10, 90, 50: site 2 goes first.
GreedyFirstPickMaxDamageWitness ==
    /\ req.sites = << <<0, 1, 10>>, <<0, 2, 90>>, <<1, 0, 50>> >>
    /\ damage_weight = WeightDen
    /\ Len(path) >= 2
    /\ path[2] = 2

\* C7: with damage_weight 0 the first site the greedy constructor selects is at
\* the least distance from the hub.
GreedyFirstPickNearest ==
    (damage_weight = 0 /\ Len(path) >= 2) =>
        \A j \in 1 .. NumSites : EdgeKm(coords, 0, path[2]) <= EdgeKm(coords, 0, j)

GreedyFirstPickNearestWitness ==
    /\ req.sites = << <<0, 2, 90>>, <<1, 0, 10>>, <<0, 1, 90>> >>
    /\ damage_weight = 0
    /\ Len(path) >= 2
    /\ path[2] = 2

\* C8: route_order called with weight w returns what it returns when called with
\* min(1, max(0, w)): the same pair, and the same cost matrix for the solver.
ClampIsSilent ==
    /\ pc = "returned" =>
          result = route_order(req.hub, req.sites, ClampedArg, algorithm, solver, assignment)
    /\ pc = "solve" =>
          cost_matrix = build_cost_matrix(ReqCoords, ReqDamage, ClampedArg)

ClampIsSilentWitness ==
    /\ pc = "returned"
    /\ req.damage_weight < 0
    /\ NumSites = 3
    /\ result.order # <<0, 1, 2, 3>>

\* Scores of the greedy step about to run in this state.
StepScores == greedy_scores(damage_scores, damage_weight,
                            greedy_dists(coords, current, unvisited))

\* C9: each greedy step selects a site of the highest score, and of several sites
\* with that score the one of the least index (the earliest in input order).
GreedyTieBreak ==
    [][ (pc = "greedy_loop" /\ Len(path') = Len(path) + 1) =>
            LET j == path'[Len(path')]
            IN  /\ j \in unvisited
                /\ \A k \in unvisited :
                      /\ StepScores[k] <= StepScores[j]
                      /\ StepScores[k] = StepScores[j] => j <= k ]_vars

\* A first step with two sites on the highest score has been taken.
GreedyTieBreakWitness ==
    /\ pc = "greedy_loop"
    /\ Len(path) = 2
    /\ LET first == greedy_scores(damage_scores, damage_weight,
                                  greedy_dists(coords, 0, 1 .. NumSites))
       IN  \E k \in unvisited : first[k] = first[path[2]] /\ k > path[2]

\* C10: an order read off a solver assignment starts at the hub, holds the hub
\* once and each site at most once, and does not end at the hub.
SolverOrderIsOpenPath ==
    (pc = "returned" /\ solver = "assignment") =>
        LET o == result.order
        IN  /\ Len(o) >= 1
            /\ o[1] = 0
            /\ \A i, k \in 1 .. Len(o) : o[i] = o[k] => i = k
            /\ Elems(o) \subseteq 0 .. NumSites
            /\ o[Len(o)] # 0

SolverOrderWitness ==
    /\ pc = "returned"
    /\ solver = "assignment"
    /\ NumSites = 3
    /\ result.order = <<0, 3, 1, 2>>

====
